---- MODULE Spec2Model ----
(***************************************************************************)
(* The M5Stack PaperS3 e-book reader, src/EReader_S3/EReader_S3.ino:       *)
(* byte normalisation (textSubstring), the measurement pass (getNextPage), *)
(* the paginator (findPageStartStop), the render pass (displayPage), the   *)
(* persisted page index (storePageSD / getPageSD) and the touch loop.      *)
(*                                                                         *)
(* Offsets are the code's 0-based offsets; a TLA+ sequence is 1-based, so  *)
(* textFile[i] of the code is ByteAt(tf, i) == tf[i + 1] here.             *)
(***************************************************************************)
EXTENDS Integers, Sequences, FiniteSets, TLC

VARIABLES
    textFile,     \* the book's bytes (uint8_t *textFile), 0..255 each
    textLength,   \* fileLength of setup(), the textLength of the paginator
    charW,        \* pixel advance of one printable glyph of the font
    sdFile,       \* /pageNumber.txt: whether it exists, and its bytes
    pc,           \* position of the program
    pageCount,    \* int pageCount
    pages,        \* pages[0 .. Len(pages)-1] written so far (inside pages[])
    currentPage,  \* int currentPage
    startPtr,     \* findPageStartStop: startPtr
    endPtr,       \* findPageStartStop: endPtr
    gnp,          \* getNextPage: its locals, and its return value
    measured,     \* per recorded page: the line advances of its measurement
    screen,       \* what the last displayPage call did
    fault,        \* undefined behaviour met so far ("none" when none)
    sd,           \* history of the last SD operation (observation only)
    norm,         \* result of the last textSubstring call (observation only)
    hist          \* the run of findPageStartStop in progress, the page table
                  \* its first run left, the screen at the last sleep
                  \* (observation only)

vars == <<textFile, textLength, charW, sdFile, pc, pageCount, pages,
          currentPage, startPtr, endPtr, gnp, measured, screen, fault, sd,
          norm, hist>>

(***************************************************************************)
(* Program constants.                                                      *)
(***************************************************************************)
SCREEN_WIDTH == 540
SCREEN_HEIGHT == 960
border == 10
PagesCap == 2000
LineHeight == 22
BottomMargin == 90
FooterBand == 60
TailBytes == 500
SP == 32
CR == 13

xMax == SCREEN_WIDTH - (border * 2)
yMax == SCREEN_HEIGHT - (border * 2) - FooterBand

Two8 == 2 ^ 8
Two16 == 2 ^ 16
Two15 == 2 ^ 15

ByteAt(tf, i) == tf[i + 1]

MinOf(S) == CHOOSE x \in S : \A y \in S : x <= y

(***************************************************************************)
(* textSubstring: one iteration of its for loop.  st = [i, s]; the loop    *)
(* ends when i >= endPtr.  Every `continue` runs the loop's i++.           *)
(***************************************************************************)
ThirdByteMap(b3) ==
    CASE b3 \in {152, 153, 178} -> <<39>>          \* 98 99 B2 -> '
      [] b3 \in {156, 157}      -> <<34>>          \* 9C 9D    -> "
      [] b3 = 148               -> <<45>>          \* 94       -> -
      [] b3 = 166               -> <<46, 46, 46>>  \* A6       -> ...
      [] b3 = 162               -> <<42>>          \* A2       -> *
      [] OTHER                  -> <<>>            \* no case: falls out

SingleByteMap(b1) ==
    CASE b1 \in {145, 146} -> <<39>>               \* 91 92 -> '
      [] b1 \in {147, 148} -> <<34>>               \* 93 94 -> "
      [] b1 = 151          -> <<45>>               \* 97    -> -
      [] b1 = 133          -> <<46, 46, 46>>       \* 85    -> ...
      [] b1 = 149          -> <<42>>               \* 95    -> *
      [] b1 = 169          -> <<40, 99, 41>>       \* A9    -> (c)
      [] OTHER             -> <<b1>>               \* s += (char) b1

ThreeByteGuard_Strict(i, endPtr_) == i + 3 < endPtr_
ThreeByteGuard(i, endPtr_) == i + 2 < endPtr_

textSubstringStep(tf, endPtr_, st) ==
    LET i == st.i
        b1 == ByteAt(tf, i)
        hit3 == /\ b1 = 226
                /\ ThreeByteGuard(i, endPtr_)
                /\ ByteAt(tf, i + 1) = 128
                /\ ThirdByteMap(ByteAt(tf, i + 2)) # <<>>
        hit2 == /\ b1 = 194
                /\ i + 1 < endPtr_
                /\ ByteAt(tf, i + 1) = 169
    IN  IF hit3
          THEN [i |-> i + 2 + 1, s |-> st.s \o ThirdByteMap(ByteAt(tf, i + 2))]
          ELSE IF hit2
                 THEN [i |-> i + 1 + 1, s |-> st.s \o <<40, 99, 41>>]
                 ELSE [i |-> i + 1, s |-> st.s \o SingleByteMap(b1)]

\* The loop: up to 2^k iterations at recursion depth k.
RECURSIVE textSubstringLoop(_, _, _, _)
textSubstringLoop(k, tf, endPtr_, st) ==
    IF st.i >= endPtr_ THEN st
    ELSE IF k = 0 THEN textSubstringStep(tf, endPtr_, st)
    ELSE textSubstringLoop(k - 1, tf, endPtr_,
                           textSubstringLoop(k - 1, tf, endPtr_, st))

LoopDepth == 12

\* The loop, run to its end: 1, 2, 4, ... 2^LoopDepth iterations in turn.
RECURSIVE textSubstringRun(_, _, _, _)
textSubstringRun(k, tf, endPtr_, st) ==
    IF st.i >= endPtr_ \/ k > LoopDepth THEN st
    ELSE textSubstringRun(k + 1, tf, endPtr_,
                          textSubstringLoop(k, tf, endPtr_, st))

textSubstring(tf, startPtr_, endPtr_) ==
    textSubstringRun(0, tf, endPtr_, [i |-> startPtr_, s |-> <<>>]).s

(***************************************************************************)
(* textIndexOfSpaceCR: the first offset >= startPtr_ holding a space or a  *)
(* CR, or -1.  st = [ptr, found].                                          *)
(***************************************************************************)
IsBreak(b) == b = SP \/ b = CR

RECURSIVE textIndexLoop(_, _, _, _)
textIndexLoop(k, tf, textLength_, st) ==
    IF st.found \/ st.ptr >= textLength_ THEN st
    ELSE IF k = 0
      THEN IF IsBreak(ByteAt(tf, st.ptr))
             THEN [st EXCEPT !.found = TRUE]
             ELSE [st EXCEPT !.ptr = st.ptr + 1]
    ELSE textIndexLoop(k - 1, tf, textLength_,
                       textIndexLoop(k - 1, tf, textLength_, st))

RECURSIVE textIndexRun(_, _, _, _)
textIndexRun(k, tf, textLength_, st) ==
    IF st.found \/ st.ptr >= textLength_ \/ k > LoopDepth THEN st
    ELSE textIndexRun(k + 1, tf, textLength_,
                      textIndexLoop(k, tf, textLength_, st))

textIndexOfSpaceCR(tf, startPtr_, textLength_) ==
    LET r == textIndexRun(0, tf, textLength_,
                          [ptr |-> startPtr_, found |-> FALSE])
    IN  IF r.found THEN r.ptr ELSE -1

reachedEndOfBook(wordStart, textLength_) == wordStart >= textLength_

(***************************************************************************)
(* M5.Display.textWidth(text.c_str()): additive over the characters of the *)
(* C string, which ends at the first NUL.  A glyph of the font (0x20..0x7E)*)
(* advances w pixels, any other byte none.                                 *)
(***************************************************************************)
CharWidth(w, c) == IF c >= 32 /\ c <= 126 THEN w ELSE 0

textWidth(w, s) ==
    LET nul == {j \in 1..Len(s) : s[j] = 0}
        n   == IF nul = {} THEN Len(s) ELSE MinOf(nul) - 1
    IN  w * Cardinality({j \in 1..n : CharWidth(w, s[j]) # 0})

\* String::charAt: 0 when the index is outside the string
charAt(s, j) == IF j >= 0 /\ j < Len(s) THEN s[j + 1] ELSE 0

(***************************************************************************)
(* The persisted page index.  A uint32_t is held as its two 16-bit halves  *)
(* [hi, lo] (TLC's integers are 32-bit signed); an int is an               *)
(* integer in -2^31 .. 2^31-1.  storePageSD opens the file with FILE_WRITE *)
(* (on the ESP32 core: "w", which truncates) and writes c as four bytes,   *)
(* least significant first; when the open fails nothing is written.        *)
(***************************************************************************)
U32(hi, lo) == [hi |-> hi, lo |-> lo]

\* int -> uint32_t (the call storePageSD(currentPage))
ToUint32(n) == U32((n \div Two16) % Two16, n % Two16)
\* uint32_t -> int (the assignment currentPage = getPageSD())
ToInt32(u) == IF u.hi >= Two15 THEN (u.hi - Two16) * Two16 + u.lo
                               ELSE u.hi * Two16 + u.lo

StoreBytes_NoShift(c) ==
    << c.lo % Two8, c.lo % Two8, c.hi % Two8, c.hi \div Two8 >>
StoreBytes(c) ==
    << c.lo % Two8, c.lo \div Two8, c.hi % Two8, c.hi \div Two8 >>

storePageSD(file, c, opened) ==
    IF opened THEN [exists |-> TRUE, bytes |-> StoreBytes(c)] ELSE file

getPageSD(file) ==
    IF file.exists /\ Len(file.bytes) >= 4
      THEN U32(file.bytes[3] + file.bytes[4] * Two8,
               file.bytes[1] + file.bytes[2] * Two8)
      ELSE U32(0, 0)

(***************************************************************************)
(* getNextPage: one pass through its while loop.  l holds the locals       *)
(* wordStart, xPos, yPos, text; done/ret hold the return.  tok and wraps   *)
(* observe                                                                 *)
(* the pass: tok numbers the token at wordStart by the breaks (space, CR)  *)
(* of the page up to and including its first byte, wraps collects the      *)
(* tokens before which the line advanced.                                  *)
(***************************************************************************)
GetNextPageEntry(tf, startPtr_) ==
    [wordStart |-> 0, xPos |-> 0, yPos |-> 0, done |-> FALSE, ret |-> 0,
     tok |-> IF startPtr_ < Len(tf) /\ IsBreak(ByteAt(tf, startPtr_)) THEN 1 ELSE 0,
     wraps |-> {}, text |-> <<>>]

ScanFrom_Same(startPtr_, wordStart) == startPtr_ + wordStart
ScanFrom(startPtr_, wordStart) == startPtr_ + wordStart + 1

\* line 203, with wordStart as line 200 has left it
PageFullReturn_Further(startPtr_, wordStart) == startPtr_ + wordStart + 1
PageFullReturn(startPtr_, wordStart) == startPtr_ + wordStart

\* lines 189-192: no break up to the end of the file
EndOfFileCase_Unhandled(wordEnd, startPtr_, textLength_) == wordEnd
EndOfFileCase(wordEnd, startPtr_, textLength_) ==
    IF wordEnd = -1 - startPtr_ THEN textLength_ - startPtr_ ELSE wordEnd

GetNextPageIter(tf, w, startPtr_, textLength_, l) ==
    IF reachedEndOfBook(l.wordStart + startPtr_, textLength_ - TailBytes)
      THEN [l EXCEPT !.done = TRUE, !.ret = textLength_]
      ELSE
        LET found   == textIndexOfSpaceCR(tf, ScanFrom(startPtr_, l.wordStart),
                                          textLength_) - startPtr_
            wordEnd == EndOfFileCase(found, startPtr_, textLength_)
            text    == textSubstring(tf, startPtr_ + l.wordStart,
                                     startPtr_ + wordEnd)
            textPixelLength == textWidth(w, text)
            advance == (l.xPos + textPixelLength >= xMax) \/ charAt(text, 0) = CR
            yPos1   == l.yPos + LineHeight
        IN  IF advance /\ (yPos1 + BottomMargin) >= yMax
              THEN [l EXCEPT !.done = TRUE,
                             !.ret = PageFullReturn(startPtr_, l.wordStart + 1),
                             !.xPos = 0, !.yPos = yPos1,
                             !.wordStart = l.wordStart + 1,
                             !.wraps = l.wraps \cup {l.tok},
                             !.text = text]
              ELSE [l EXCEPT !.xPos = (IF advance THEN 0 ELSE l.xPos)
                                      + textPixelLength,
                             !.yPos = IF advance THEN yPos1 ELSE l.yPos,
                             !.wordStart = wordEnd,
                             !.tok = l.tok + 1,
                             !.wraps = IF advance THEN l.wraps \cup {l.tok}
                                                  ELSE l.wraps,
                             !.text = text]

RECURSIVE GetNextPageLoop(_, _, _, _, _, _)
GetNextPageLoop(k, tf, w, startPtr_, textLength_, l) ==
    IF l.done THEN l
    ELSE IF k = 0 THEN GetNextPageIter(tf, w, startPtr_, textLength_, l)
    ELSE GetNextPageLoop(k - 1, tf, w, startPtr_, textLength_,
                         GetNextPageLoop(k - 1, tf, w, startPtr_, textLength_, l))

\* the whole call
RECURSIVE GetNextPageRun(_, _, _, _, _, _)
GetNextPageRun(k, tf, w, startPtr_, textLength_, l) ==
    IF l.done \/ k > LoopDepth THEN l
    ELSE GetNextPageRun(k + 1, tf, w, startPtr_, textLength_,
                        GetNextPageLoop(k, tf, w, startPtr_, textLength_, l))

getNextPage(tf, w, startPtr_, textLength_) ==
    GetNextPageRun(0, tf, w, startPtr_, textLength_,
                   GetNextPageEntry(tf, startPtr_))

(***************************************************************************)
(* pages[]: 2000 zero-initialised entries; entries 0 .. Len(pages)-1 have  *)
(* been written.  An index outside 0 .. 1999 is outside the array.         *)
(***************************************************************************)
ZeroPage == [start |-> 0, end |-> 0]
InPages(i) == i >= 0 /\ i < PagesCap
PagesAt(pgs, i) == IF i < Len(pgs) THEN pgs[i + 1] ELSE ZeroPage

(***************************************************************************)
(* displayPage: one pass through its while loop over the normalised page   *)
(* text.  st = [wordStart, cx, cy] is the loop position and the display    *)
(* cursor; maxY, tok, wraps and out observe the pass (the lowest cursor    *)
(* line, the token number, the tokens before which the line advanced, the  *)
(* characters printed with each CR as itself).                             *)
(* M5.Display.print advances the cursor by the width of what it prints.    *)
(***************************************************************************)
findNextWordBreak(s, start) ==
    LET r == textIndexRun(0, s, Len(s), [ptr |-> start, found |-> FALSE])
    IN  IF r.found THEN r.ptr ELSE -1

PrintAdvance(w, s) == w * Cardinality({j \in 1..Len(s) : CharWidth(w, s[j]) # 0})

AtLeftMargin(cx) == ~(cx > border)

DisplayPageIter(w, text, st) ==
    LET c == charAt(text, st.wordStart)
    IN  IF c = SP \/ c = CR
          THEN IF c = CR
                 THEN [st EXCEPT !.cx = border, !.cy = st.cy + LineHeight,
                                 !.maxY = st.cy + LineHeight,
                                 !.wordStart = st.wordStart + 1,
                                 !.tok = st.tok + 1,
                                 !.wraps = st.wraps \cup {st.tok + 1},
                                 !.out = Append(st.out, CR)]
                 ELSE [st EXCEPT !.cx = st.cx + PrintAdvance(w, <<SP>>),
                                 !.wordStart = st.wordStart + 1,
                                 !.tok = st.tok + 1,
                                 !.out = Append(st.out, SP)]
          ELSE
            LET brk     == findNextWordBreak(text, st.wordStart)
                wordEnd == IF brk = -1 THEN Len(text) ELSE brk
                word    == SubSeq(text, st.wordStart + 1, wordEnd)
                len     == textWidth(w, word) % Two16
                advance == ~AtLeftMargin(st.cx)
                           /\ (st.cx + len >= SCREEN_WIDTH - border)
                cx1     == IF advance THEN border ELSE st.cx
                cy1     == IF advance THEN st.cy + LineHeight ELSE st.cy
            IN  [st EXCEPT !.cx = cx1 + PrintAdvance(w, word),
                           !.cy = cy1,
                           !.maxY = cy1,
                           !.wordStart = wordEnd,
                           !.wraps = IF advance THEN st.wraps \cup {st.tok}
                                                ELSE st.wraps,
                           !.out = st.out \o word]

RECURSIVE DisplayPageLoop(_, _, _, _)
DisplayPageLoop(k, w, text, st) ==
    IF ~(st.wordStart < Len(text)) THEN st
    ELSE IF k = 0 THEN DisplayPageIter(w, text, st)
    ELSE DisplayPageLoop(k - 1, w, text, DisplayPageLoop(k - 1, w, text, st))

RECURSIVE DisplayPageRun(_, _, _, _)
DisplayPageRun(k, w, text, st) ==
    IF ~(st.wordStart < Len(text)) \/ k > LoopDepth THEN st
    ELSE DisplayPageRun(k + 1, w, text, DisplayPageLoop(k, w, text, st))

\* the whole call: the page text is laid out, then the footer is drawn
displayPage(tf, w, page, index, by) ==
    LET text == textSubstring(tf, page.start, page.end)
        st   == DisplayPageRun(0, w, text,
                   [wordStart |-> 0, cx |-> border, cy |-> border + 20,
                    maxY |-> border + 20, tok |-> 0, wraps |-> {}, out |-> <<>>])
    IN  [shown |-> TRUE, by |-> by, index |-> index, page |-> page,
         maxY |-> st.maxY, wraps |-> st.wraps, out |-> st.out,
         footerY |-> SCREEN_HEIGHT - 40]

(***************************************************************************)
(* Inputs: the book on the card, the font's glyph advance, and the         *)
(* page-number file left by an earlier session.                            *)
(***************************************************************************)
Rep(pat, n) == [j \in 1..n |-> pat[((j - 1) % Len(pat)) + 1]]

\* bytes of the book ahead of its last TailBytes bytes
BodyLen == 120
DocLen == TailBytes + BodyLen
\* line advances that fill a page: the least n with n * 22 + 90 >= yMax
LinesPerPage == (yMax - BottomMargin + LineHeight - 1) \div LineHeight

Documents ==
    { <<>>,
      <<0>>,
      <<72, 105, SP, 116, 104, 101, 114, 101>>,
      Rep(<<CR>>, LinesPerPage + 9),
      Rep(<<CR>>, DocLen),
      Rep(<<97, 98, SP>>, DocLen),
      Rep(<<97>>, 60) \o Rep(<<SP, 98, 99>>, DocLen - 60),
      Rep(<<97, 98, SP>>, 60) \o Rep(<<97>>, DocLen - 60),
      Rep(<<CR>>, LinesPerPage) \o <<0>> \o Rep(<<97, SP>>, DocLen - LinesPerPage - 1),
      Rep(<<65, 226, 128, 153, 115, SP>>, DocLen),
      Rep(<<72, 105, CR, 10>>, DocLen) }

GlyphWidths == {10, 130}

NoFile == [exists |-> FALSE, bytes |-> <<>>]
StoredSamples ==
    {U32(0, 0), U32(0, 1), U32(0, 2), U32(0, 7), U32(Two16 - 1, Two16 - 3),
     U32(Two16 - 1, Two16 - 1)}
InitialFiles ==
    {NoFile, [exists |-> TRUE, bytes |-> <<1, 0, 0>>]}
    \cup {[exists |-> TRUE, bytes |-> StoreBytes(v)] : v \in StoredSamples}

NoCall == [wordStart |-> 0, xPos |-> 0, yPos |-> 0, done |-> FALSE, ret |-> 0,
           tok |-> 0, wraps |-> {}, text |-> <<>>]
Blank == [shown |-> FALSE, by |-> "none", index |-> 0, page |-> ZeroPage, maxY |-> 0,
          wraps |-> {}, out |-> <<>>, footerY |-> 0]
NoSd == [op |-> "none", arg |-> U32(0, 0), ok |-> FALSE, got |-> U32(0, 0),
         fresh |-> FALSE, absent |-> FALSE]
NoNorm == [called |-> FALSE, start |-> 0, end |-> 0, out |-> <<>>]
NoHist == [runs |-> 1, first |-> [pageCount |-> 0, pages |-> <<>>],
           slept |-> Blank]

\* the globals as the C++ runtime initialises them, at the call of
\* findPageStartStop (setup, line 370)
BootAt(tf, w, file, at) ==
    /\ textFile = tf
    /\ textLength = Len(tf)
    /\ charW = w
    /\ sdFile = file
    /\ pc = at
    /\ pageCount = 0
    /\ pages = <<>>
    /\ currentPage = 0
    /\ startPtr = 0
    /\ endPtr = 0
    /\ gnp = NoCall
    /\ measured = <<>>
    /\ screen = Blank
    /\ fault = "none"
    /\ sd = NoSd
    /\ norm = NoNorm
    /\ hist = NoHist

Init == \E tf \in Documents, w \in GlyphWidths, file \in InitialFiles :
            BootAt(tf, w, file, "paginate")

(***************************************************************************)
(* findPageStartStop                                                       *)
(***************************************************************************)
LoopTest(tf, endPtr_, textLength_) ==
    (endPtr_ < textLength_) /\ (ByteAt(tf, endPtr_) # 0)

NextStart_Skip(endPtr_) == endPtr_ + 1
NextStart(endPtr_) == endPtr_

\* the loop body after getNextPage has returned r: the break, or the write
\* of pages[pageCount].  A write at an index outside pages[] is undefined:
\* it lands on other memory and the program goes on, or it traps.
RecordPage(r) ==
    /\ endPtr' = r.ret
    /\ IF startPtr >= textLength
         THEN /\ pc' = "loadPage"
              /\ UNCHANGED <<pages, pageCount, startPtr, measured, fault>>
         ELSE IF InPages(pageCount)
           THEN /\ pages' = Append(pages, [start |-> startPtr, end |-> r.ret])
                /\ measured' = Append(measured, r.wraps)
                /\ pageCount' = pageCount + 1
                /\ startPtr' = NextStart(r.ret)
                /\ pc' = "paginate"
                /\ UNCHANGED fault
           ELSE \E outcome \in {"goes on", "traps"} :
                /\ fault' = "write outside pages[]"
                /\ pageCount' = pageCount + 1
                /\ startPtr' = NextStart(r.ret)
                /\ pc' = IF outcome = "traps" THEN "crashed" ELSE "paginate"
                /\ UNCHANGED <<pages, measured>>

FindPageStartStop_Test ==
    /\ pc = "paginate"
    /\ IF LoopTest(textFile, endPtr, textLength)
         THEN /\ pc' = "measure"
              /\ gnp' = GetNextPageEntry(textFile, startPtr)
         ELSE /\ pc' = "loadPage"
              /\ UNCHANGED gnp
    /\ UNCHANGED <<textFile, textLength, charW, sdFile, pageCount, pages,
                   currentPage, startPtr, endPtr, measured, screen, fault,
                   sd, norm, hist>>

GetNextPage_Iter ==
    /\ pc = "measure"
    /\ ~gnp.done
    /\ gnp' = GetNextPageIter(textFile, charW, startPtr, textLength, gnp)
    /\ UNCHANGED <<textFile, textLength, charW, sdFile, pc, pageCount, pages,
                   currentPage, startPtr, endPtr, measured, screen, fault,
                   sd, norm, hist>>

FindPageStartStop_Record ==
    /\ pc = "measure"
    /\ gnp.done
    /\ RecordPage(gnp)
    /\ UNCHANGED <<textFile, textLength, charW, sdFile, currentPage, gnp,
                   screen, sd, norm, hist>>

(***************************************************************************)
(* displayPage(textFile, pages[currentPage]) as setup and loop call it.    *)
(* pages[i] with i outside 0 .. 1999 reads other memory: undefined, so any *)
(* page value may come back, or the read traps.                            *)
(***************************************************************************)
PageReads(pgs, i, textLength_) ==
    IF InPages(i) THEN {[trap |-> FALSE, page |-> PagesAt(pgs, i)]}
    ELSE {[trap |-> FALSE, page |-> ZeroPage],
          [trap |-> FALSE, page |-> [start |-> 0, end |-> textLength_]],
          [trap |-> TRUE, page |-> ZeroPage]}

Show(index, by) ==
    \E rd \in PageReads(pages, index, textLength) :
        /\ fault' = IF InPages(index) THEN fault ELSE "read outside pages[]"
        /\ IF rd.trap
             THEN pc' = "crashed" /\ UNCHANGED screen
             ELSE pc' = "loop"
                  /\ screen' = displayPage(textFile, charW, rd.page, index, by)

\* setup, lines 378-382
LoadedPage(val, count) ==
    LET c == ToInt32(val) IN IF c >= count THEN 0 ELSE c

Setup_LoadPage ==
    /\ pc = "loadPage"
    /\ currentPage' = LoadedPage(getPageSD(sdFile), pageCount)
    /\ Show(currentPage', "setup")
    /\ UNCHANGED <<textFile, textLength, charW, sdFile, pageCount, pages,
                   startPtr, endPtr, gnp, measured, sd, norm, hist>>

(***************************************************************************)
(* loop: one touch.  --currentPage at INT_MIN overflows a signed int,      *)
(* which is undefined: the value wraps or the test sees the true result.   *)
(***************************************************************************)
MinInt == (0 - Two15) * Two16
MaxInt == (Two15 - 1) * Two16 + (Two16 - 1)

PrevPage(c) ==
    IF c = MinInt THEN {0, MaxInt}
    ELSE {IF c - 1 < 0 THEN 0 ELSE c - 1}

NextPage(c, count) ==
    IF c = MaxInt THEN {MinInt, count - 1}
    ELSE {IF c + 1 >= count THEN count - 1 ELSE c + 1}

Loop_TouchLeft ==
    /\ pc = "loop"
    /\ \E c \in PrevPage(currentPage) :
          /\ currentPage' = c
          /\ Show(c, "left")
    /\ UNCHANGED <<textFile, textLength, charW, sdFile, pageCount, pages,
                   startPtr, endPtr, gnp, measured, sd, norm, hist>>

Loop_TouchRight ==
    /\ pc = "loop"
    /\ \E c \in NextPage(currentPage, pageCount) :
          /\ currentPage' = c
          /\ Show(c, "right")
    /\ UNCHANGED <<textFile, textLength, charW, sdFile, pageCount, pages,
                   startPtr, endPtr, gnp, measured, sd, norm, hist>>

Loop_TouchMiddle ==
    /\ pc = "loop"
    /\ \E opened \in BOOLEAN :
          sdFile' = storePageSD(sdFile, ToUint32(currentPage), opened)
    /\ pc' = "off"
    /\ screen' = Blank
    /\ hist' = [hist EXCEPT !.slept = screen]
    /\ UNCHANGED <<textFile, textLength, charW, pageCount, pages, currentPage,
                   startPtr, endPtr, gnp, measured, fault, sd, norm>>

\* the device is switched on again: setup runs with the same card
PowerOn ==
    /\ pc = "off"
    /\ pc' = "paginate"
    /\ pageCount' = 0
    /\ pages' = <<>>
    /\ currentPage' = 0
    /\ startPtr' = 0
    /\ endPtr' = 0
    /\ gnp' = NoCall
    /\ measured' = <<>>
    /\ screen' = Blank
    /\ fault' = "none"
    /\ UNCHANGED <<textFile, textLength, charW, sdFile, sd, norm, hist>>

Pagination == FindPageStartStop_Test \/ GetNextPage_Iter \/ FindPageStartStop_Record

Next ==
    \/ FindPageStartStop_Test
    \/ GetNextPage_Iter
    \/ FindPageStartStop_Record
    \/ Setup_LoadPage
    \/ Loop_TouchLeft
    \/ Loop_TouchRight
    \/ Loop_TouchMiddle
    \/ PowerOn

Spec == Init /\ [][Next]_vars

(***************************************************************************)
(* Books long enough to fill pages[]: findPageStartStop run from where it  *)
(* stands to its next event, the return or a write outside pages[] (the    *)
(* per-page observation `measured` is not kept here).  st holds startPtr,  *)
(* endPtr, pageCount, pages, and pc, which leaves "paginate" at the event. *)
(***************************************************************************)
FindPageStartStopPass(tf, w, textLength_, st) ==
    IF ~LoopTest(tf, st.endPtr, textLength_)
      THEN [st EXCEPT !.pc = "loadPage"]
      ELSE LET r == getNextPage(tf, w, st.startPtr, textLength_)
           IN  IF st.startPtr >= textLength_
                 THEN [st EXCEPT !.endPtr = r.ret, !.pc = "loadPage"]
                 ELSE IF InPages(st.pageCount)
                   THEN [st EXCEPT !.endPtr = r.ret,
                                   !.pages = Append(st.pages,
                                       [start |-> st.startPtr, end |-> r.ret]),
                                   !.pageCount = st.pageCount + 1,
                                   !.startPtr = NextStart(r.ret)]
                   ELSE [st EXCEPT !.endPtr = r.ret,
                                   !.pageCount = st.pageCount + 1,
                                   !.startPtr = NextStart(r.ret),
                                   !.pc = "outside"]

RECURSIVE FindPageStartStopLoop(_, _, _, _, _)
FindPageStartStopLoop(k, tf, w, textLength_, st) ==
    IF st.pc # "paginate" THEN st
    ELSE IF k = 0 THEN FindPageStartStopPass(tf, w, textLength_, st)
    ELSE FindPageStartStopLoop(k - 1, tf, w, textLength_,
             FindPageStartStopLoop(k - 1, tf, w, textLength_, st))

RECURSIVE FindPageStartStopRun(_, _, _, _, _)
FindPageStartStopRun(k, tf, w, textLength_, st) ==
    IF st.pc # "paginate" \/ k > LoopDepth THEN st
    ELSE FindPageStartStopRun(k + 1, tf, w, textLength_,
             FindPageStartStopLoop(k, tf, w, textLength_, st))

\* the page counts of the books: a few short ones and one over the capacity
ShortBooks == 60
BookPages == (1..ShortBooks) \cup {PagesCap + 1}

BigDocuments ==
    { Rep(<<CR>>, (n - 1) * LinesPerPage + TailBytes) : n \in BookPages }

InitBig == \E tf \in BigDocuments, w \in GlyphWidths :
               BootAt(tf, w, NoFile, "paginate")

FindPageStartStop_Run ==
    /\ pc = "paginate"
    /\ \E r \in {FindPageStartStopRun(0, textFile, charW, textLength,
                     [startPtr |-> startPtr, endPtr |-> endPtr,
                      pageCount |-> pageCount, pages |-> pages,
                      pc |-> "paginate"])} :
          /\ startPtr' = r.startPtr
          /\ endPtr' = r.endPtr
          /\ pageCount' = r.pageCount
          /\ pages' = r.pages
          /\ IF r.pc = "outside"
               THEN /\ fault' = "write outside pages[]"
                    /\ \E outcome \in {"goes on", "traps"} :
                          pc' = IF outcome = "traps" THEN "crashed"
                                                     ELSE "paginate"
               ELSE /\ pc' = r.pc
                    /\ UNCHANGED fault
    /\ UNCHANGED <<textFile, textLength, charW, sdFile, currentPage, gnp,
                   measured, screen, sd, norm, hist>>

NextBig == FindPageStartStop_Run

SpecBig == InitBig /\ [][NextBig]_vars

(***************************************************************************)
(* findPageStartStop called a second time on the same document, in the     *)
(* same run of the program: its locals startPtr and endPtr start at 0      *)
(* again (lines 213-214), the globals pageCount and pages[] are as the     *)
(* first call left them (lines 24, 28-31).                                 *)
(***************************************************************************)
InitRerun == \E tf \in Documents, w \in GlyphWidths :
                 BootAt(tf, w, NoFile, "paginate")

FindPageStartStop_Again ==
    /\ pc = "loadPage"
    /\ hist.runs = 1
    /\ pc' = "paginate"
    /\ startPtr' = 0
    /\ endPtr' = 0
    /\ hist' = [hist EXCEPT !.runs = 2,
                            !.first = [pageCount |-> pageCount,
                                       pages |-> pages]]
    /\ UNCHANGED <<textFile, textLength, charW, sdFile, pageCount, pages,
                   currentPage, gnp, measured, screen, fault, sd, norm>>

NextRerun ==
    \/ FindPageStartStop_Test
    \/ GetNextPage_Iter
    \/ FindPageStartStop_Record
    \/ FindPageStartStop_Again

SpecRerun == InitRerun /\ [][NextRerun]_vars

(***************************************************************************)
(* The revision src/unnamed/part_000.  Its textIndexOfSpaceCR,             *)
(* reachedEndOfBook and findPageStartStop read as those above; its         *)
(* textSubstring copies the bytes, and its getNextPage does not test for   *)
(* the -1 of textIndexOfSpaceCR.  With wordEnd = -1 - startPtr the next    *)
(* token starts at offset -1: textFile[-1] is outside the buffer, so the   *)
(* byte read is any byte (`under`), or the read traps.  The observations   *)
(* tok and wraps are not kept here.                                        *)
(***************************************************************************)
textSubstring_000(tf, startPtr_, endPtr_, under) ==
    [j \in 1..(endPtr_ - startPtr_) |->
        IF startPtr_ + j - 1 < 0 THEN under ELSE ByteAt(tf, startPtr_ + j - 1)]

GetNextPageIter_000(tf, w, startPtr_, textLength_, l, under) ==
    IF reachedEndOfBook(l.wordStart + startPtr_, textLength_ - TailBytes)
      THEN [l EXCEPT !.done = TRUE, !.ret = textLength_]
      ELSE
        LET wordEnd == textIndexOfSpaceCR(tf, startPtr_ + l.wordStart + 1,
                                          textLength_) - startPtr_
            text    == textSubstring_000(tf, startPtr_ + l.wordStart,
                                         startPtr_ + wordEnd, under)
            textPixelLength == textWidth(w, text)
            advance == (l.xPos + textPixelLength >= xMax) \/ charAt(text, 0) = CR
            yPos1   == l.yPos + LineHeight
        IN  IF advance /\ (yPos1 + BottomMargin) >= yMax
              THEN [l EXCEPT !.done = TRUE,
                             !.ret = startPtr_ + l.wordStart + 1,
                             !.xPos = 0, !.yPos = yPos1,
                             !.wordStart = l.wordStart + 1,
                             !.text = text]
              ELSE [l EXCEPT !.xPos = (IF advance THEN 0 ELSE l.xPos)
                                      + textPixelLength,
                             !.yPos = IF advance THEN yPos1 ELSE l.yPos,
                             !.wordStart = wordEnd,
                             !.text = text]

\* the token of the coming iteration starts before the buffer and is not empty
ReadsBelow_000(tf, startPtr_, textLength_, l) ==
    /\ ~reachedEndOfBook(l.wordStart + startPtr_, textLength_ - TailBytes)
    /\ startPtr_ + l.wordStart < 0
    /\ textIndexOfSpaceCR(tf, startPtr_ + l.wordStart + 1, textLength_)
           > startPtr_ + l.wordStart

Documents_000 ==
    { <<72, 105, SP, 116, 104, 101, 114, 101>>,
      Rep(<<CR>>, DocLen),
      Rep(<<97, 98, SP>>, DocLen),
      Rep(<<97>>, DocLen),
      Rep(<<97, 98, SP>>, 60) \o Rep(<<97>>, DocLen - 60) }

UnderBytes == {97, CR}

\* passes of findPageStartStop followed (the loop of part_000 need not end)
MaxPasses == 1

Init_000 == \E tf \in Documents_000, w \in GlyphWidths :
                BootAt(tf, w, NoFile, "paginate")

GetNextPage_Iter_000 ==
    /\ pc = "measure"
    /\ ~gnp.done
    /\ IF ReadsBelow_000(textFile, startPtr, textLength, gnp)
         THEN /\ fault' = "read outside textFile"
              /\ \/ \E under \in UnderBytes :
                       /\ gnp' = GetNextPageIter_000(textFile, charW, startPtr,
                                                     textLength, gnp, under)
                       /\ pc' = pc
                 \/ pc' = "crashed" /\ UNCHANGED gnp
         ELSE /\ gnp' = GetNextPageIter_000(textFile, charW, startPtr,
                                            textLength, gnp, 0)
              /\ UNCHANGED <<pc, fault>>
    /\ UNCHANGED <<textFile, textLength, charW, sdFile, pageCount, pages,
                   currentPage, startPtr, endPtr, measured, screen, sd, norm,
                   hist>>

FindPageStartStop_Test_000 ==
    /\ pageCount < MaxPasses
    /\ FindPageStartStop_Test

Next_000 ==
    \/ FindPageStartStop_Test_000
    \/ GetNextPage_Iter_000
    \/ FindPageStartStop_Record

Spec_000 == Init_000 /\ [][Next_000]_vars

(***************************************************************************)
(* The page-number file on its own: calls of storePageSD and getPageSD,    *)
(* and the card changed behind the program's back.                         *)
(***************************************************************************)
RoundTripValues ==
    StoredSamples \cup {U32(0, 42), U32(0, Two8 - 1), U32(0, Two8),
                        U32(0, Two16 - 1), U32(1, 0), U32(Two8, 0),
                        U32(Two15 - 1, Two16 - 1), U32(Two15, 0),
                        U32(4660, 22136)}

InitSD == \E file \in InitialFiles : BootAt(<<>>, 10, file, "sd")

SD_storePageSD ==
    /\ pc = "sd"
    /\ \E c \in RoundTripValues, opened \in BOOLEAN :
          /\ sdFile' = storePageSD(sdFile, c, opened)
          /\ sd' = [op |-> "store", arg |-> c, ok |-> opened, got |-> U32(0, 0),
                    fresh |-> FALSE, absent |-> FALSE]
    /\ UNCHANGED <<textFile, textLength, charW, pc, pageCount, pages,
                   currentPage, startPtr, endPtr, gnp, measured, screen, fault,
                   norm, hist>>

SD_getPageSD ==
    /\ pc = "sd"
    /\ sd' = [op |-> "get", arg |-> sd.arg, ok |-> TRUE,
              got |-> getPageSD(sdFile),
              fresh |-> (sd.op = "store" /\ sd.ok),
              absent |-> ~sdFile.exists]
    /\ UNCHANGED <<textFile, textLength, charW, sdFile, pc, pageCount, pages,
                   currentPage, startPtr, endPtr, gnp, measured, screen, fault,
                   norm, hist>>

SD_CardChanged ==
    /\ pc = "sd"
    /\ \E file \in {NoFile, [exists |-> TRUE, bytes |-> <<1, 0, 0>>]} :
          sdFile' = file
    /\ sd' = [op |-> "changed", arg |-> U32(0, 0), ok |-> TRUE,
              got |-> U32(0, 0), fresh |-> FALSE, absent |-> FALSE]
    /\ UNCHANGED <<textFile, textLength, charW, pc, pageCount, pages,
                   currentPage, startPtr, endPtr, gnp, measured, screen, fault,
                   norm, hist>>

NextSD == SD_storePageSD \/ SD_getPageSD \/ SD_CardChanged

SpecSD == InitSD /\ [][NextSD]_vars

(***************************************************************************)
(* textSubstring on its own: every buffer of up to MaxNormLen bytes over   *)
(* the bytes its tables name, and every range of the buffer.               *)
(***************************************************************************)
MaxNormLen == 3

NormBytes == {65, 226, 128, 194, 195, 169,
              152, 153, 178, 156, 157, 148, 166, 162,
              145, 146, 147, 151, 133, 149}

NormBuffers == UNION {[1..n -> NormBytes] : n \in 0..MaxNormLen}

InitNorm == \E tf \in NormBuffers : BootAt(tf, 10, NoFile, "norm")

TextSubstring_Call ==
    /\ pc = "norm"
    /\ ~norm.called
    /\ \E a \in 0..textLength : \E b \in a..textLength :
          norm' = [called |-> TRUE, start |-> a, end |-> b,
                   out |-> textSubstring(textFile, a, b)]
    /\ UNCHANGED <<textFile, textLength, charW, sdFile, pc, pageCount, pages,
                   currentPage, startPtr, endPtr, gnp, measured, screen, fault,
                   sd, hist>>

NextNorm == TextSubstring_Call

SpecNorm == InitNorm /\ [][NextNorm]_vars

(***************************************************************************)
(*                              The claims                                 *)
(***************************************************************************)
Paginating == pc \in {"paginate", "measure"}
Paginated == pc \in {"loadPage", "loop", "off", "crashed"}

\* the page on screen is a recorded page of the table, read inside pages[]
ShowsRecordedPage ==
    /\ screen.shown
    /\ screen.index >= 0
    /\ screen.index < pageCount
    /\ screen.index < Len(pages)
    /\ screen.page = pages[screen.index + 1]

\* C1: after findPageStartStop has run, pages[0].start = 0 and each recorded
\* page ends where the next one starts.
C1_Contiguous ==
    Paginated =>
        /\ PagesAt(pages, 0).start = 0
        /\ \A i \in 0..(pageCount - 2) :
               PagesAt(pages, i).end = PagesAt(pages, i + 1).start

C1_Witness == pc = "loop" /\ pageCount >= 3 /\ pages[3].start > 0

\* C2 (as claimed): for a non-empty document the last recorded page ends at
\* the document's length.
C2_LastPageEndsAtLength ==
    (Paginated /\ textLength > 0) =>
        /\ pageCount >= 1
        /\ PagesAt(pages, pageCount - 1).end = textLength

\* C3: pagination terminates, every recorded page has end > start, and every
\* getNextPage call made with startPtr < textLength returns a boundary in
\* (startPtr, textLength].  Termination: while findPageStartStop runs, every
\* step of it lowers PaginationRank, a natural number.
PassRank == 2 * textLength + 4

PaginationRank ==
    IF ~Paginating THEN 0
    ELSE 1 + (textLength - startPtr) * PassRank
         + (IF pc = "paginate" THEN PassRank - 1
            ELSE IF gnp.done THEN 0
            ELSE 1 + (textLength - startPtr - gnp.wordStart))

C3_Safe ==
    /\ \A i \in 1..Len(pages) : pages[i].end > pages[i].start
    /\ (pc = "measure" /\ gnp.done /\ startPtr < textLength) =>
           (gnp.ret > startPtr /\ gnp.ret <= textLength)
    /\ PaginationRank >= 0

C3_Progress ==
    [](C3_Safe) /\ [][Paginating => PaginationRank' < PaginationRank]_vars

C3_Witness ==
    /\ pc = "loadPage"
    /\ pageCount >= 2
    /\ pages[1].end > pages[1].start
    /\ gnp.done /\ gnp.ret = textLength

\* C4 (as claimed): pageCount never exceeds the capacity of pages[] and no
\* page is written outside it.
C4_WithinCapacity ==
    pageCount <= PagesCap /\ fault # "write outside pages[]"

\* C5 (as claimed): rendering a recorded page never takes the text cursor
\* past the usable vertical bound (yMax of the measurement, seen from the
\* render pass, whose first line sits at border + 20).
UsableBottom == yMax + border + 20

C5_RenderWithinBound == ShowsRecordedPage => screen.maxY <= UsableBottom

\* C6 (as claimed): the render pass advances the line before exactly the
\* tokens before which the measurement pass advanced it.
C6_SameWraps ==
    ShowsRecordedPage => screen.wraps = measured[screen.index + 1]

\* C7 (as claimed): whenever displayPage(pages[currentPage]) is called,
\* 0 <= currentPage <= pageCount - 1.
C7_ValidIndexShown ==
    screen.shown => (screen.index >= 0 /\ screen.index <= pageCount - 1)

\* C8 (as claimed): the page setup shows first is the stored value when the
\* file holds one below pageCount, and page 0 in every other case.
StoredBelow(file, count) ==
    /\ file.exists
    /\ Len(file.bytes) >= 4
    /\ file.bytes[3] = 0 /\ file.bytes[4] = 0
    /\ file.bytes[1] + file.bytes[2] * Two8 < count

C8_StartupPage ==
    (screen.shown /\ screen.by = "setup") =>
        currentPage = IF StoredBelow(sdFile, pageCount)
                        THEN sdFile.bytes[1] + sdFile.bytes[2] * Two8
                        ELSE 0

\* C9: getPageSD right after a successful storePageSD(c) returns c, and
\* getPageSD returns 0 when the file does not exist.
C9_RoundTrip ==
    sd.op = "get" =>
        /\ sd.fresh => sd.got = sd.arg
        /\ sd.absent => sd.got = U32(0, 0)

C9_Witness ==
    /\ sd.op = "get" /\ sd.fresh
    /\ sd.arg = U32(4660, 22136)
    /\ sd.got = U32(4660, 22136)

\* C10: textSubstring equals the reference normaliser: left to right, the
\* first table entry (3-byte, then 2-byte, then 1-byte patterns) that lies
\* wholly inside the range is replaced and skipped, any other byte is kept.
RefTable ==
    << [pat |-> <<226, 128, 152>>, out |-> <<39>>],
       [pat |-> <<226, 128, 153>>, out |-> <<39>>],
       [pat |-> <<226, 128, 178>>, out |-> <<39>>],
       [pat |-> <<226, 128, 156>>, out |-> <<34>>],
       [pat |-> <<226, 128, 157>>, out |-> <<34>>],
       [pat |-> <<226, 128, 148>>, out |-> <<45>>],
       [pat |-> <<226, 128, 166>>, out |-> <<46, 46, 46>>],
       [pat |-> <<226, 128, 162>>, out |-> <<42>>],
       [pat |-> <<194, 169>>, out |-> <<40, 99, 41>>],
       [pat |-> <<145>>, out |-> <<39>>],
       [pat |-> <<146>>, out |-> <<39>>],
       [pat |-> <<147>>, out |-> <<34>>],
       [pat |-> <<148>>, out |-> <<34>>],
       [pat |-> <<151>>, out |-> <<45>>],
       [pat |-> <<133>>, out |-> <<46, 46, 46>>],
       [pat |-> <<149>>, out |-> <<42>>],
       [pat |-> <<169>>, out |-> <<40, 99, 41>> ] >>

RefMatches(buf, i, end) ==
    {k \in 1..Len(RefTable) :
        /\ i + Len(RefTable[k].pat) <= end
        /\ SubSeq(buf, i + 1, i + Len(RefTable[k].pat)) = RefTable[k].pat}

RECURSIVE RefNormalize(_, _, _)
RefNormalize(buf, i, end) ==
    IF i >= end THEN <<>>
    ELSE LET m == RefMatches(buf, i, end)
         IN  IF m = {}
               THEN <<buf[i + 1]>> \o RefNormalize(buf, i + 1, end)
               ELSE RefTable[MinOf(m)].out
                    \o RefNormalize(buf, i + Len(RefTable[MinOf(m)].pat), end)

C10_MatchesReference ==
    norm.called => norm.out = RefNormalize(textFile, norm.start, norm.end)

C10_Witness ==
    /\ norm.called
    /\ textFile = <<226, 128, 166>>
    /\ norm.start = 0 /\ norm.end = 3
    /\ norm.out = <<46, 46, 46>>

\* C11 (as claimed): a second run of findPageStartStop on the same document
\* leaves pageCount and every pages[i] as the first run left them.
C11_Idempotent ==
    (pc = "loadPage" /\ hist.runs = 2) =>
        /\ pageCount = hist.first.pageCount
        /\ \A i \in 0..(pageCount - 1) :
               PagesAt(pages, i) = PagesAt(hist.first.pages, i)

\* C12: within one call of getNextPage every loop iteration strictly
\* increases the scan position startPtr + wordStart and leaves it at most
\* textLength.
InGetNextPageLoop ==
    /\ pc = "measure"
    /\ ~gnp.done
    /\ ~reachedEndOfBook(gnp.wordStart + startPtr, textLength - TailBytes)

C12_ScanAdvances ==
    InGetNextPageLoop =>
        LET l == GetNextPageIter(textFile, charW, startPtr, textLength, gnp)
        IN  /\ startPtr + l.wordStart > startPtr + gnp.wordStart
            /\ startPtr + l.wordStart <= textLength

\* a tail without a space or CR, wider than the line, has been taken in one
\* iteration
C12_Witness ==
    /\ pc = "measure"
    /\ textFile = Rep(<<97, 98, SP>>, 60) \o Rep(<<97>>, DocLen - 60)
    /\ ~gnp.done
    /\ startPtr + gnp.wordStart = textLength

\* getNextPage has returned because the page was full (line 203): the token
\* whose line advance filled the page starts at offset PageFullToken
PageFullReturned == pc = "measure" /\ gnp.done /\ gnp.ret < textLength
PageFullToken == startPtr + gnp.wordStart - 1

\* C13: a page that ends because a word did not fit ends at the first byte
\* of that word, the byte after the space or CR before it; for every page
\* i > 0 the byte at pages[i].start - 1 is a space or CR.
C13_BoundaryAtWordStart ==
    /\ PageFullReturned =>
           /\ IsBreak(ByteAt(textFile, PageFullToken))
           /\ gnp.ret = PageFullToken + 1
    /\ \A i \in 2..Len(pages) :
           IsBreak(ByteAt(textFile, pages[i].start - 1))

C13_Witness ==
    /\ pc = "loop"
    /\ Len(pages) >= 2
    /\ ByteAt(textFile, pages[2].start - 1) = SP
    /\ ByteAt(textFile, pages[2].start) = 97

\* C14 (as claimed): when the line advance of a CR fills the page, the
\* returned boundary is the offset of that CR.
C14_PageEndsBeforeCR ==
    (PageFullReturned /\ ByteAt(textFile, PageFullToken) = CR) =>
        gnp.ret = PageFullToken

\* C15 (as claimed): no token measured by getNextPage holds an LF byte (10).
C15_NoLFInWord ==
    pc = "measure" => \A j \in 1..Len(gnp.text) : gnp.text[j] # 10

\* C16 (as claimed): when a token that starts with a space is wrapped in the
\* measurement pass, the new line starts at the left margin without the
\* space: x is advanced by the width of the word alone.
C16_SpaceAbsorbed ==
    (/\ pc = "measure"
     /\ ~gnp.done
     /\ Len(gnp.text) > 0
     /\ gnp.text[1] = SP
     /\ (gnp.tok - 1) \in gnp.wraps) =>
        gnp.xPos = textWidth(charW, Tail(gnp.text))

\* C17 (as claimed): after a middle tap the page-number file holds the index
\* of the page that was on screen, and the next startup shows that page.
C17_SleepResume ==
    /\ (pc = "off" /\ hist.slept.shown) =>
           /\ sdFile.exists
           /\ sdFile.bytes = StoreBytes(ToUint32(hist.slept.index))
    /\ (screen.shown /\ screen.by = "setup" /\ hist.slept.shown) =>
           /\ screen.index = hist.slept.index
           /\ screen.page = hist.slept.page

\* C18 (as claimed): in the revision part_000 the scan position
\* startPtr + wordStart of getNextPage stays within [startPtr, textLength]
\* and every recorded page has end > start.
C18_Progress_000 ==
    /\ pc = "measure" =>
           /\ startPtr + gnp.wordStart >= startPtr
           /\ startPtr + gnp.wordStart <= textLength
    /\ \A i \in 1..Len(pages) : pages[i].end > pages[i].start

\* the text of the recorded pages 0..n-1, each normalized as displayPage does
RECURSIVE PagesText(_, _, _)
PagesText(tf, ps, n) ==
    IF n = 0 THEN <<>>
    ELSE PagesText(tf, ps, n - 1) \o textSubstring(tf, ps[n].start, ps[n].end)

C19_EachPage ==
    ShowsRecordedPage =>
        screen.out = textSubstring(textFile, screen.page.start, screen.page.end)

C19_WholeDocument ==
    (Paginated /\ pageCount = Len(pages)) =>
        PagesText(textFile, pages, pageCount) = textSubstring(textFile, 0, textLength)

\* C19 (as claimed): displayPage emits every byte of its page once and in
\* order (the words and spaces printed, each CR a line break, make up
\* textSubstring(page.start, page.end)), so the pages 0..pageCount-1 shown
\* in order make up the normalized document.
C19_RenderComplete == C19_EachPage /\ C19_WholeDocument

\* one well-formed two- or three-byte UTF-8 sequence
IsContinuation(b) == b >= 128 /\ b <= 191
WellFormedSequence(buf) ==
    \/ Len(buf) = 2 /\ buf[1] >= 194 /\ buf[1] <= 223 /\ IsContinuation(buf[2])
    \/ Len(buf) = 3 /\ buf[1] >= 224 /\ buf[1] <= 239
                    /\ IsContinuation(buf[2]) /\ IsContinuation(buf[3])
CuratedPattern(buf) == \E k \in 1..Len(RefTable) : RefTable[k].pat = buf

\* C20 (as claimed): a well-formed multi-byte UTF-8 sequence that is not a
\* curated pattern comes out of textSubstring as the same bytes.
C20_PassThrough ==
    (/\ norm.called
     /\ norm.start = 0 /\ norm.end = textLength
     /\ WellFormedSequence(textFile)
     /\ ~CuratedPattern(textFile)) => norm.out = textFile

====
